---- MODULE Spec2Model ----
(***************************************************************************)
(* Model of app.py (Takealot spot finder): the title normaliser, the box   *)
(* deduplicator, the infinite-scroll loop and the find_spot pipeline.      *)
(*                                                                         *)
(* A title is a sequence of characters.  Characters that matter to         *)
(* norm_title are named: "sp" (U+0020), "tab" (any other ASCII white       *)
(* space), "nbsp" (U+00A0), "endash" (U+2013), "emdash" (U+2014),          *)
(* "hy" (U+002D); "a", "b", "c" are lower-case letters and "A", "B" upper- *)
(* case letters.                                                           *)
(***************************************************************************)
EXTENDS Integers, Sequences, FiniteSets, TLC

VARIABLES
    \* find_spot
    pc, product_name, strict_raw, relaxed_raw, items, used_fallback, spot,
    evaluated, browser_launched, context_created, context_closes,
    browser_closes, pw_active, raised_at,
    \* norm_title driver
    n_pc, n_in, n_out,
    \* dedupe_by_box driver
    d_pc, d_in, d_out,
    \* scroll_to_bottom
    s_pc, stable, last, iters, measured

mainVars == <<pc, product_name, strict_raw, relaxed_raw, items, used_fallback,
              spot, evaluated, browser_launched, context_created,
              context_closes, browser_closes, pw_active, raised_at>>
normVars == <<n_pc, n_in, n_out>>
dedupeVars == <<d_pc, d_in, d_out>>
scrollVars == <<s_pc, stable, last, iters, measured>>
vars == <<mainVars, normVars, dedupeVars, scrollVars>>

----------------------------------------------------------------------------
(* Bounds *)

MaxLen == 3        \* longest raw title given to norm_title
MaxRecs == 3       \* longest record list given to dedupe_by_box
MaxCards == 3      \* most cards on the rendered page
MaxHeight == 3     \* largest document.body.scrollHeight
max_iters == 5     \* scroll_to_bottom(page, max_iters): iteration cap

\* Python None (the rank when nothing matched); ranks are >= 1.
None == -1

SeqsUpTo(S, n) == UNION {[1..k -> S] : k \in 0..n}

----------------------------------------------------------------------------
(* norm_title *)

Chars == {"a", "A", "sp", "tab", "nbsp", "endash", "emdash", "hy"}

\* str.isspace(): what str.strip() strips and what \s matches in a str pattern
isspace(c) == c \in {"sp", "tab", "nbsp"}

isspace_ascii(c) == c \in {"sp", "tab"}

RECURSIVE lstrip(_)
lstrip(s) == IF s # <<>> /\ isspace(Head(s)) THEN lstrip(Tail(s)) ELSE s

RECURSIVE rstrip(_)
rstrip(s) ==
    IF s # <<>> /\ isspace(s[Len(s)]) THEN rstrip(SubSeq(s, 1, Len(s) - 1)) ELSE s

RECURSIVE lstrip_ascii(_)
lstrip_ascii(s) ==
    IF s # <<>> /\ isspace_ascii(Head(s)) THEN lstrip_ascii(Tail(s)) ELSE s

RECURSIVE rstrip_ascii(_)
rstrip_ascii(s) ==
    IF s # <<>> /\ isspace_ascii(s[Len(s)])
    THEN rstrip_ascii(SubSeq(s, 1, Len(s) - 1)) ELSE s

\* a strip() that knows only ASCII white space
strip_ascii(s) == rstrip_ascii(lstrip_ascii(s))

strip(s) == rstrip(lstrip(s))

lower_char(c) == IF c = "A" THEN "a" ELSE IF c = "B" THEN "b" ELSE c

lower(s) == [i \in 1..Len(s) |-> lower_char(s[i])]

replace(s, old, new) == [i \in 1..Len(s) |-> IF s[i] = old THEN new ELSE s[i]]

\* re.sub(r"\s+", " ", s)
RECURSIVE collapse_ws(_)
collapse_ws(s) ==
    IF s = <<>> THEN <<>>
    ELSE IF isspace(Head(s)) THEN <<"sp">> \o collapse_ws(lstrip(s))
    ELSE <<Head(s)>> \o collapse_ws(Tail(s))

norm_title(s) ==
    LET s1 == lower(strip(s))
        s2 == replace(replace(replace(s1, "nbsp", "sp"), "endash", "hy"),
                      "emdash", "hy")
    IN  collapse_ws(s2)

----------------------------------------------------------------------------
(* dedupe_by_box *)

\* round(n, -1) on an int: nearest multiple of 10, ties to the even multiple
round10(n) ==
    LET q == n \div 10
        r == n % 10
    IN  IF r < 5 THEN 10 * q
        ELSE IF r > 5 THEN 10 * (q + 1)
        ELSE IF q % 2 = 0 THEN 10 * q ELSE 10 * (q + 1)

\* a key that forgets to round the coordinates
box_key_unrounded(it) == <<it.x, it.y, it.title>>

box_key(it) == <<round10(it.x), round10(it.y), it.title>>

\* a loop that puts each kept record at the front of out
RECURSIVE dedupe_loop_prepend(_, _, _)
dedupe_loop_prepend(its, seen, out) ==
    IF its = <<>> THEN out
    ELSE LET it == Head(its)
             key == box_key(it)
         IN  IF key \in seen
             THEN dedupe_loop_prepend(Tail(its), seen, out)
             ELSE dedupe_loop_prepend(Tail(its), seen \cup {key}, <<it>> \o out)

RECURSIVE dedupe_loop(_, _, _)
dedupe_loop(its, seen, out) ==
    IF its = <<>> THEN out
    ELSE LET it == Head(its)
             key == box_key(it)
         IN  IF key \in seen
             THEN dedupe_loop(Tail(its), seen, out)
             ELSE dedupe_loop(Tail(its), seen \cup {key}, Append(out, it))

dedupe_by_box(its) == dedupe_loop(its, {}, <<>>)

----------------------------------------------------------------------------
(* sort, assign_spots, match loop *)

key_yx_le(a, b) == a.y < b.y \/ (a.y = b.y /\ a.x <= b.x)

\* stable insertion: it goes after every element whose (y, x) is <= its own
RECURSIVE insert_stable(_, _)
insert_stable(s, it) ==
    IF s = <<>> THEN <<it>>
    ELSE IF key_yx_le(s[Len(s)], it) THEN Append(s, it)
    ELSE Append(insert_stable(SubSeq(s, 1, Len(s) - 1), it), s[Len(s)])

\* list.sort(key=lambda x: (x["y"], x["x"])), a stable sort
RECURSIVE sort_by_yx(_)
sort_by_yx(s) ==
    IF s = <<>> THEN <<>>
    ELSE insert_stable(sort_by_yx(SubSeq(s, 1, Len(s) - 1)), s[Len(s)])

\* enumerate(items) without start=1
assign_spots_from_zero(its) ==
    [i \in 1..Len(its) |->
        [title |-> its[i].title, x |-> its[i].x, y |-> its[i].y, spot |-> i - 1]]

assign_spots(its) ==
    [i \in 1..Len(its) |->
        [title |-> its[i].title, x |-> its[i].x, y |-> its[i].y, spot |-> i]]

\* a fallback test that also fires on a single strict tile
needs_fallback_le_one(its) == Len(its) <= 1

needs_fallback(its) == Len(its) = 0

IsSubstring(a, b) ==
    \E i \in 0..(Len(b) - Len(a)) : SubSeq(b, i + 1, i + Len(a)) = a

\* a loop without the break: the last exact hit wins
RECURSIVE match_spot_last(_, _)
match_spot_last(its, target) ==
    IF its = <<>> THEN None
    ELSE IF norm_title(its[Len(its)].title) = target THEN its[Len(its)].spot
    ELSE match_spot_last(SubSeq(its, 1, Len(its) - 1), target)

\* a loop that accepts substring containment in either direction
RECURSIVE match_spot_substring(_, _)
match_spot_substring(its, target) ==
    IF its = <<>> THEN None
    ELSE LET t == norm_title(Head(its).title)
         IN  IF IsSubstring(target, t) \/ IsSubstring(t, target)
             THEN Head(its).spot
             ELSE match_spot_substring(Tail(its), target)

\* a loop whose "not found" value is 0 instead of None
RECURSIVE match_spot_zero(_, _)
match_spot_zero(its, target) ==
    IF its = <<>> THEN 0
    ELSE IF norm_title(Head(its).title) = target THEN Head(its).spot
    ELSE match_spot_zero(Tail(its), target)

\* spot = None; for it in items: if norm_title(it["title"]) == target: ... break
RECURSIVE match_spot(_, _)
match_spot(its, target) ==
    IF its = <<>> THEN None
    ELSE IF norm_title(Head(its).title) = target THEN Head(its).spot
    ELSE match_spot(Tail(its), target)

----------------------------------------------------------------------------
(* The rendered page and the two scrape scripts *)

\* titles as the scripts produce them: trimmed and non-empty
Titles == {<<"a">>, <<"A">>, <<"a", "b">>}
Xs == {0, 3}
Ys == {0, 20}

\* a card that passed bigEnough and has a title; action = hasAction(card)
Cards == [title : Titles, x : Xs, y : Ys, action : BOOLEAN]

\* product_name as the form hands it over: stripped and non-empty
ProductNames == {<<"A">>, <<"a", "b">>, <<"c">>}

tile(c) == [title |-> c.title, x |-> c.x, y |-> c.y]

tiles(cards) == [i \in 1..Len(cards) |-> tile(cards[i])]

JS_SCRAPE_ACTION_ONLY(cards) ==
    sort_by_yx(tiles(SelectSeq(cards, LAMBDA c : c.action)))

JS_SCRAPE_RELAXED(cards) == sort_by_yx(tiles(cards))

----------------------------------------------------------------------------
(* Idle values of each group of variables *)

MainIdle ==
    /\ pc = "idle" /\ product_name = <<>> /\ strict_raw = <<>>
    /\ relaxed_raw = <<>> /\ items = <<>> /\ used_fallback = FALSE
    /\ spot = None /\ evaluated = {} /\ browser_launched = FALSE
    /\ context_created = FALSE /\ context_closes = 0 /\ browser_closes = 0
    /\ pw_active = FALSE /\ raised_at = "none"

NormIdle == n_pc = "idle" /\ n_in = <<>> /\ n_out = <<>>

DedupeIdle == d_pc = "idle" /\ d_in = <<>> /\ d_out = <<>>

ScrollIdle ==
    s_pc = "idle" /\ stable = 0 /\ last = 0 /\ iters = 0 /\ measured = <<>>

----------------------------------------------------------------------------
(* find_spot *)

\* inside "async with async_playwright() as pw", before chromium.launch
InitMain ==
    /\ pc = "launch"
    /\ product_name \in ProductNames
    /\ strict_raw = <<>> /\ relaxed_raw = <<>> /\ items = <<>>
    /\ used_fallback = FALSE /\ spot = None /\ evaluated = {}
    /\ browser_launched = FALSE /\ context_created = FALSE
    /\ context_closes = 0 /\ browser_closes = 0
    /\ pw_active = TRUE /\ raised_at = "none"

Launch ==
    /\ pc = "launch"
    /\ browser_launched' = TRUE
    /\ pc' = "new_context"
    /\ UNCHANGED <<product_name, strict_raw, relaxed_raw, items, used_fallback,
                   spot, evaluated, context_created, context_closes,
                   browser_closes, pw_active, raised_at,
                   normVars, dedupeVars, scrollVars>>

NewContext ==
    /\ pc = "new_context"
    /\ context_created' = TRUE
    /\ pc' = "new_page"
    /\ UNCHANGED <<product_name, strict_raw, relaxed_raw, items, used_fallback,
                   spot, evaluated, browser_launched, context_closes,
                   browser_closes, pw_active, raised_at,
                   normVars, dedupeVars, scrollVars>>

Step(from, to) ==
    /\ pc = from
    /\ pc' = to
    /\ UNCHANGED <<product_name, strict_raw, relaxed_raw, items, used_fallback,
                   spot, evaluated, browser_launched, context_created,
                   context_closes, browser_closes, pw_active, raised_at,
                   normVars, dedupeVars, scrollVars>>

NewPage == Step("new_page", "goto")

Goto == Step("goto", "stabilize")

\* dismiss_popups, force_products_tab, wait_for_selector: failures swallowed
Stabilize == Step("stabilize", "scroll")

\* the call of scroll_to_bottom returns (its loop is SpecScroll)
ScrollToBottom == Step("scroll", "pre_extract")

\* dismiss_popups and the optional debug dump: failures swallowed
PreExtract == Step("pre_extract", "strict")

ExtractStrict ==
    /\ pc = "strict"
    /\ \E cards \in SeqsUpTo(Cards, MaxCards) :
          LET raw == JS_SCRAPE_ACTION_ONLY(cards)
          IN  /\ strict_raw' = raw
              /\ items' = assign_spots(sort_by_yx(dedupe_by_box(raw)))
    /\ used_fallback' = FALSE
    /\ evaluated' = evaluated \cup {"strict"}
    /\ pc' = "fallback"
    /\ UNCHANGED <<product_name, relaxed_raw, spot, browser_launched,
                   context_created, context_closes, browser_closes, pw_active,
                   raised_at,
                   normVars, dedupeVars, scrollVars>>

ExtractRelaxed ==
    /\ pc = "fallback"
    /\ needs_fallback(items)
    /\ used_fallback' = TRUE
    /\ \E cards \in SeqsUpTo(Cards, MaxCards) :
          LET raw == JS_SCRAPE_RELAXED(cards)
          IN  /\ relaxed_raw' = raw
              /\ items' = assign_spots(sort_by_yx(dedupe_by_box(raw)))
    /\ evaluated' = evaluated \cup {"relaxed"}
    /\ pc' = "match"
    /\ UNCHANGED <<product_name, strict_raw, spot, browser_launched,
                   context_created, context_closes, browser_closes, pw_active,
                   raised_at,
                   normVars, dedupeVars, scrollVars>>

SkipFallback ==
    /\ pc = "fallback"
    /\ ~needs_fallback(items)
    /\ pc' = "match"
    /\ UNCHANGED <<product_name, strict_raw, relaxed_raw, items, used_fallback,
                   spot, evaluated, browser_launched, context_created,
                   context_closes, browser_closes, pw_active, raised_at,
                   normVars, dedupeVars, scrollVars>>

Match ==
    /\ pc = "match"
    /\ spot' = match_spot(items, norm_title(product_name))
    /\ pc' = "close_context"
    /\ UNCHANGED <<product_name, strict_raw, relaxed_raw, items, used_fallback,
                   evaluated, browser_launched, context_created,
                   context_closes, browser_closes, pw_active, raised_at,
                   normVars, dedupeVars, scrollVars>>

CloseContext ==
    /\ pc = "close_context"
    /\ context_closes' = context_closes + 1
    /\ pc' = "close_browser"
    /\ UNCHANGED <<product_name, strict_raw, relaxed_raw, items, used_fallback,
                   spot, evaluated, browser_launched, context_created,
                   browser_closes, pw_active, raised_at,
                   normVars, dedupeVars, scrollVars>>

CloseBrowser ==
    /\ pc = "close_browser"
    /\ browser_closes' = browser_closes + 1
    /\ pc' = "return"
    /\ UNCHANGED <<product_name, strict_raw, relaxed_raw, items, used_fallback,
                   spot, evaluated, browser_launched, context_created,
                   context_closes, pw_active, raised_at,
                   normVars, dedupeVars, scrollVars>>

\* return spot, items, used_fallback: leaves the async with block
Return ==
    /\ pc = "return"
    /\ pw_active' = FALSE
    /\ pc' = "returned"
    /\ UNCHANGED <<product_name, strict_raw, relaxed_raw, items, used_fallback,
                   spot, evaluated, browser_launched, context_created,
                   context_closes, browser_closes, raised_at,
                   normVars, dedupeVars, scrollVars>>

\* the awaited browser calls that are not wrapped in try/except
RaisingSteps == {"launch", "new_context", "new_page", "goto", "scroll",
                 "strict", "fallback", "close_context", "close_browser"}

\* an awaited call raises: nothing in find_spot catches it, the async with
\* block is left and the exception reaches the caller
Raises ==
    /\ pc \in RaisingSteps
    /\ pc = "fallback" => needs_fallback(items)
    /\ raised_at' = pc
    /\ used_fallback' = IF pc = "fallback" THEN TRUE ELSE used_fallback
    /\ evaluated' = evaluated \cup
                      (IF pc = "strict" THEN {"strict"}
                       ELSE IF pc = "fallback" THEN {"relaxed"} ELSE {})
    /\ pw_active' = FALSE
    /\ pc' = "raised"
    /\ UNCHANGED <<product_name, strict_raw, relaxed_raw, items, spot,
                   browser_launched, context_created, context_closes,
                   browser_closes,
                   normVars, dedupeVars, scrollVars>>

Init == InitMain /\ NormIdle /\ DedupeIdle /\ ScrollIdle

Next ==
    \/ Launch \/ NewContext \/ NewPage \/ Goto \/ Stabilize \/ ScrollToBottom
    \/ PreExtract \/ ExtractStrict \/ ExtractRelaxed \/ SkipFallback \/ Match
    \/ CloseContext \/ CloseBrowser \/ Return \/ Raises

Spec == Init /\ [][Next]_vars

----------------------------------------------------------------------------
(* norm_title applied to every raw title up to MaxLen characters *)

InitNorm ==
    /\ n_pc = "input" /\ n_in \in SeqsUpTo(Chars, MaxLen) /\ n_out = <<>>
    /\ MainIdle /\ DedupeIdle /\ ScrollIdle

NormApply ==
    /\ n_pc = "input"
    /\ n_out' = norm_title(n_in)
    /\ n_pc' = "done"
    /\ UNCHANGED <<n_in, mainVars, dedupeVars, scrollVars>>

NextNorm == NormApply

SpecNorm == InitNorm /\ [][NextNorm]_vars

----------------------------------------------------------------------------
(* dedupe_by_box applied to every record list up to MaxRecs records *)

DTitles == {<<"a">>, <<"A">>}
DXs == {4, 5, 6, 15}
DYs == {0, 8}

\* id is the identity of the dict object: its position in the input list
WithIds(s) ==
    [i \in 1..Len(s) |->
        [id |-> i, title |-> s[i].title, x |-> s[i].x, y |-> s[i].y]]

InitDedupe ==
    /\ d_pc = "input"
    /\ \E s \in SeqsUpTo([title : DTitles, x : DXs, y : DYs], MaxRecs) :
          d_in = WithIds(s)
    /\ d_out = <<>>
    /\ MainIdle /\ NormIdle /\ ScrollIdle

DedupeApply ==
    /\ d_pc = "input"
    /\ d_out' = dedupe_by_box(d_in)
    /\ d_pc' = "done"
    /\ UNCHANGED <<d_in, mainVars, normVars, scrollVars>>

NextDedupe == DedupeApply

SpecDedupe == InitDedupe /\ [][NextDedupe]_vars

----------------------------------------------------------------------------
(* scroll_to_bottom *)

Heights == 1..MaxHeight

\* a stall counter that growth does not reset
next_stable_no_reset(st, cur, lst) == IF cur <= lst THEN st + 1 ELSE st

\* if cur <= last: stable += 1 ... else: stable = 0
next_stable(st, cur, lst) == IF cur <= lst THEN st + 1 ELSE 0

InitScroll ==
    /\ s_pc = "start" /\ stable = 0 /\ last = 0 /\ iters = 0 /\ measured = <<>>
    /\ MainIdle /\ NormIdle /\ DedupeIdle

\* stable = 0; last = await page.evaluate("document.body.scrollHeight")
ScrollStart ==
    /\ s_pc = "start"
    /\ \E h \in Heights : last' = h /\ measured' = <<h>>
    /\ stable' = 0
    /\ iters' = 0
    /\ s_pc' = "loop"
    /\ UNCHANGED <<mainVars, normVars, dedupeVars>>

\* one pass of the for body
ScrollIter ==
    /\ s_pc = "loop"
    /\ iters < max_iters
    /\ \E cur \in Heights :
          LET st == next_stable(stable, cur, last)
          IN  /\ measured' = Append(measured, cur)
              /\ stable' = st
              /\ IF cur <= last /\ st >= 2
                 THEN last' = last /\ s_pc' = "settle"
                 ELSE last' = cur /\ s_pc' = "loop"
    /\ iters' = iters + 1
    /\ UNCHANGED <<mainVars, normVars, dedupeVars>>

\* range(max_iters) is exhausted
ScrollExhausted ==
    /\ s_pc = "loop"
    /\ iters = max_iters
    /\ s_pc' = "settle"
    /\ UNCHANGED <<stable, last, iters, measured, mainVars, normVars, dedupeVars>>

\* await page.wait_for_timeout(1200)
ScrollSettle ==
    /\ s_pc = "settle"
    /\ s_pc' = "done"
    /\ UNCHANGED <<stable, last, iters, measured, mainVars, normVars, dedupeVars>>

\* a page call of scroll_to_bottom raises
ScrollRaises ==
    /\ s_pc \in {"start", "loop", "settle"}
    /\ s_pc = "loop" => iters < max_iters
    /\ s_pc' = "raised"
    /\ UNCHANGED <<stable, last, iters, measured, mainVars, normVars, dedupeVars>>

NextScroll ==
    ScrollStart \/ ScrollIter \/ ScrollExhausted \/ ScrollSettle \/ ScrollRaises

SpecScroll == InitScroll /\ [][NextScroll]_vars

----------------------------------------------------------------------------
(* Properties of find_spot *)

AfterFallback == {"match", "close_context", "close_browser", "return", "returned"}

\* the scrape result the returned records were built from
TierRaw == IF used_fallback THEN relaxed_raw ELSE strict_raw

Target == norm_title(product_name)

ExactHits == {i \in 1..Len(items) : norm_title(items[i].title) = Target}

SubstringHits ==
    {i \in 1..Len(items) :
        \/ IsSubstring(Target, norm_title(items[i].title))
        \/ IsSubstring(norm_title(items[i].title), Target)}

Min(S) == CHOOSE m \in S : \A n \in S : m <= n

Abs(n) == IF n < 0 THEN -n ELSE n

KeyOf(r) == <<round10(r.x), round10(r.y), r.title>>

\* C1: whenever find_spot has exited (returned or raised) after the browser
\* was launched, browser.close() has run exactly once, and context.close()
\* has run exactly once if a context was created.
C1_SessionClosedExactlyOnce ==
    (pc \in {"returned", "raised"} /\ browser_launched) =>
        /\ browser_closes = 1
        /\ context_created => context_closes = 1

\* C2: the relaxed script is evaluated only after a strict scrape that gave
\* zero tiles; once the fallback decision is taken it has been evaluated
\* exactly when the strict scrape was empty; the returned used_fallback is
\* true exactly when it was evaluated; a non-empty strict scrape leaves the
\* relaxed script unevaluated and used_fallback false.
C2_FallbackIffStrictEmpty ==
    /\ "relaxed" \in evaluated => ("strict" \in evaluated /\ Len(strict_raw) = 0)
    /\ pc \in AfterFallback => (("relaxed" \in evaluated) <=> (Len(strict_raw) = 0))
    /\ pc = "returned" => (used_fallback <=> ("relaxed" \in evaluated))
    /\ Len(strict_raw) >= 1 => ("relaxed" \notin evaluated /\ ~used_fallback)

C2_Witness ==
    /\ pc = "returned" /\ used_fallback /\ "relaxed" \in evaluated
    /\ strict_raw = <<>> /\ Len(relaxed_raw) >= 1

\* C3: if some extracted tile has a normalized title equal to the normalized
\* product_name, the returned spot is the rank of the first such record in
\* rank order, lies in 1..number of returned records, and the record with
\* that rank has a normalized title equal to the target.
C3_FirstExactHit ==
    (pc = "returned"
       /\ \E k \in 1..Len(TierRaw) : norm_title(TierRaw[k].title) = Target) =>
        /\ ExactHits # {}
        /\ spot = items[Min(ExactHits)].spot
        /\ spot \in 1..Len(items)
        /\ \E i \in 1..Len(items) :
              items[i].spot = spot /\ norm_title(items[i].title) = Target
        /\ \A i \in 1..Len(items) :
              items[i].spot < spot => norm_title(items[i].title) # Target

C3_Witness ==
    /\ pc = "returned" /\ spot >= 2 /\ Cardinality(ExactHits) >= 2
    /\ product_name # items[spot].title

C5_ContiguousSortedRanks ==
    pc = "returned" =>
        /\ \A i \in 1..Len(items) : items[i].spot = i
        /\ {items[i].spot : i \in 1..Len(items)} = 1..Len(items)
        /\ Len(items) = Cardinality({KeyOf(TierRaw[k]) : k \in 1..Len(TierRaw)})
        /\ \A i, j \in 1..Len(items) :
              items[i].spot < items[j].spot =>
                  \/ items[i].y < items[j].y
                  \/ (items[i].y = items[j].y /\ items[i].x <= items[j].x)

C5_Witness ==
    /\ pc = "returned" /\ Len(items) >= 2 /\ Len(TierRaw) > Len(items)
    /\ items[1].y < items[Len(items)].y

BothYieldedZero ==
    /\ evaluated = {"strict", "relaxed"}
    /\ raised_at # "fallback"
    /\ strict_raw = <<>> /\ relaxed_raw = <<>>

\* C6: once both scrapes have yielded zero tiles, the record list is empty,
\* the spot is None, and nothing but a failing close call can raise; the
\* returned result is (None, []).
C6_ZeroCandidatesIsNotAnError ==
    BothYieldedZero =>
        /\ items = <<>>
        /\ spot = None
        /\ raised_at \in {"none", "close_context", "close_browser"}

C6_Witness == pc = "returned" /\ BothYieldedZero /\ used_fallback

----------------------------------------------------------------------------
(* Properties of dedupe_by_box *)

OutIds == {d_out[k].id : k \in 1..Len(d_out)}

SameKey(a, b) ==
    /\ round10(a.x) = round10(b.x)
    /\ round10(a.y) = round10(b.y)
    /\ a.title = b.title

FirstOccurrences ==
    {i \in 1..Len(d_in) :
        \A j \in 1..(i - 1) : ~SameKey(d_in[j], d_in[i])}

\* C8: the output is no longer than the input, its records are input
\* records in input order, and they are exactly the first occurrences of
\* their keys.
C8_FirstOccurrenceSubsequence ==
    d_pc = "done" =>
        /\ Len(d_out) <= Len(d_in)
        /\ \A k \in 1..Len(d_out) :
              d_out[k].id \in 1..Len(d_in) /\ d_out[k] = d_in[d_out[k].id]
        /\ \A k \in 1..(Len(d_out) - 1) : d_out[k].id < d_out[k + 1].id
        /\ OutIds = FirstOccurrences

C8_Witness ==
    d_pc = "done" /\ Len(d_out) >= 2 /\ Len(d_out) < Len(d_in)

----------------------------------------------------------------------------
(* Property of norm_title *)

\* C9: normalizing a normalized title changes nothing.
C9_NormTitleIdempotent ==
    n_pc = "done" => norm_title(n_out) = n_out

C9_Witness ==
    /\ n_pc = "done" /\ Len(n_in) = MaxLen
    /\ n_in[1] = "nbsp" /\ n_in[2] = "A" /\ n_in[3] = "endash"
    /\ n_out = <<"a", "hy">>

----------------------------------------------------------------------------
(* Property of scroll_to_bottom *)

\* iteration k measured a height that did not grow over the one before
Stall(k) == measured[k + 1] <= measured[k]

DoubleStall(k) == k >= 2 /\ Stall(k) /\ Stall(k - 1)

\* C10: the loop never runs more than max_iters iterations; it has left the
\* loop before the cap exactly at the first iteration that completes two
\* consecutive stalls, so no earlier iteration completed two consecutive
\* stalls and a stall followed by growth does not stop it.
C10_ScrollStopsOnDoubleStallOrCap ==
    /\ iters <= max_iters
    /\ s_pc \in {"loop", "settle", "done", "raised"} /\ measured # <<>> =>
          /\ Len(measured) = iters + 1
          /\ \A k \in 1..(iters - 1) : ~DoubleStall(k)
    /\ s_pc = "loop" => ~DoubleStall(iters)
    /\ s_pc \in {"settle", "done"} => (iters = max_iters \/ DoubleStall(iters))

C10_Witness ==
    /\ s_pc = "done" /\ iters < max_iters /\ DoubleStall(iters)
    /\ \E k \in 1..(iters - 1) : Stall(k) /\ ~Stall(k + 1)

====
